---- MODULE Spec2Model ----
(***************************************************************************)
(* dmriprep/utils.py: is_hemispherical (the hemisphere test of a set of    *)
(* gradient directions) and is_bval_bvec_hemispherical (its entry point    *)
(* for a gradient table or a pair of files).                               *)
(*                                                                         *)
(* Numbers.  The components of the input vectors are fixed-point integers  *)
(* in units of 1/Den, tolerances are integers in units of 1/TolDen.  A     *)
(* unit vector produced by a normalisation c / |c| is kept as the          *)
(* primitive integer vector of its direction; a vector whose components    *)
(* are all NaN (0/0) is kept as such.  The input domain is chosen so that  *)
(* every norm the program takes is an integer (NormsExact) and every       *)
(* number fits.                                                            *)
(*                                                                         *)
(* Rounding.  The program computes in float64.  Where the outcome of a     *)
(* step does not depend on the rounding, the model computes it in the      *)
(* reals.  It depends on the rounding in two places: the comparison        *)
(* arccos(dot) <= pi/2 when the dot product is 0 or 1 in the reals and its *)
(* float64 value is not exact (it may come out just below 0 or just above  *)
(* 1), and the mean of the vertices when it is the zero vector in the      *)
(* reals and the float64 sum is not exact (it may come out as a non-zero   *)
(* vector of rounding errors, of a direction that is left open).  There    *)
(* the model keeps every outcome the rounding can give: the variable       *)
(* rounding holds the outcomes of the comparisons, one for each triple of  *)
(* operand rows, and the mean is chosen among MeanOutcomes.  A float64     *)
(* computation is taken as exact only where IEEE arithmetic guarantees it  *)
(* (products with a factor 0, x - x, x + x, sqrt(x * x), sums of small     *)
(* integers).                                                              *)
(***************************************************************************)
EXTENDS Integers, Sequences, FiniteSets

VARIABLES entry, pc, gtab, bval_file, bvec_file, atol, loaded, called,
          vecs, core_atol, cross_prods, rounding, dot_prod_test, is_hemi,
          vertices, pole, err, ret

vars == <<entry, pc, gtab, bval_file, bvec_file, atol, loaded, called,
          vecs, core_atol, cross_prods, rounding, dot_prod_test, is_hemi,
          vertices, pole, err, ret>>

\* Largest number of vectors (rows) of an input drawn from Vec3.
MaxN == 3

\* Largest number of copies of a row in an input of one row followed by
\* copies of another.
MaxCopies == 3

\* Unit of the vector components: the component x stands for x / Den.
Den == 1000

\* Unit of the tolerances: atol stands for atol / TolDen; numpy's default
\* relative tolerance rtol = 1e-05 is 1 / TolDen.
TolDen == 100000

\* atol=10e-4, the default of both functions.
DefaultAtol == 100

----------------------------------------------------------------------------
\* Arithmetic

Abs(n) == IF n < 0 THEN 0 - n ELSE n

\* The greatest common divisor (Euclid).
Gcd[a \in Nat, b \in Nat] == IF b = 0 THEN a ELSE Gcd[b, a % b]

Lcm[a \in Nat, b \in Nat] == (a * b) \div Gcd[a, b]

\* The largest r in lo..hi with r * r <= n (bisection).
SqrtSearch[n \in Nat, lo \in Nat, hi \in Nat] ==
    IF lo = hi THEN lo
    ELSE LET mid == (lo + hi + 1) \div 2
         IN  IF mid * mid <= n THEN SqrtSearch[n, mid, hi]
             ELSE SqrtSearch[n, lo, mid - 1]

\* The integer square root; the square root itself when n is a square.
ISqrt(n) == SqrtSearch[n, 0, IF n < 46340 THEN n ELSE 46340]

IsSquare(n) == ISqrt(n) * ISqrt(n) = n

Dot(a, b) == a[1] * b[1] + a[2] * b[2] + a[3] * b[3]

\* np.cross of two 3-vectors.
Cross(a, b) == << a[2] * b[3] - a[3] * b[2],
                  a[3] * b[1] - a[1] * b[3],
                  a[1] * b[2] - a[2] * b[1] >>

Neg(a) == << 0 - a[1], 0 - a[2], 0 - a[3] >>

Zero3 == << 0, 0, 0 >>

\* The direction of a non-zero integer vector in lowest terms.
Primitive(c) ==
    LET g == Gcd[Gcd[Abs(c[1]), Abs(c[2])], Abs(c[3])]
    IN  << c[1] \div g, c[2] \div g, c[3] \div g >>

\* The sum of a sequence of integers.
SumSeq[s \in Seq(Int)] == IF s = << >> THEN 0 ELSE Head(s) + SumSeq[Tail(s)]

\* The least common multiple of a sequence of positive integers.
LcmSeq[s \in Seq(Nat)] == IF s = << >> THEN 1 ELSE Lcm[Head(s), LcmSeq[Tail(s)]]

\* The sum of a sequence of 3-vectors.
SumVec[s \in Seq(Seq(Int))] ==
    << SumSeq[[k \in 1..Len(s) |-> s[k][1]]],
       SumSeq[[k \in 1..Len(s) |-> s[k][2]]],
       SumSeq[[k \in 1..Len(s) |-> s[k][3]]] >>

RECURSIVE Flatten(_)
Flatten(ss) == IF ss = << >> THEN << >> ELSE Head(ss) \o Flatten(Tail(ss))

----------------------------------------------------------------------------
\* Values

\* A float 3-vector that is a unit vector (u |-> its direction), the zero
\* vector, a vector of NaNs, a mean of unit vectors before it is normalised
\* (u |-> the mean times a positive factor), or a local not assigned yet.
UnitVec(p) == [kind |-> "unit", u |-> p]
MeanVec(w) == [kind |-> "mean", u |-> w]
NaNVec == [kind |-> "nan", u |-> Zero3]
\* A non-zero vector of rounding errors, and the unit vector it is
\* normalised to: which direction it has is left open.
NoiseVec == [kind |-> "noise", u |-> Zero3]
RoundoffVec == [kind |-> "roundoff", u |-> Zero3]
ZeroVec == [kind |-> "zero", u |-> Zero3]
Unset == [kind |-> "unset", u |-> Zero3]

\* An (N, dim) array of dtype float64 ("float") or int64 ("int").
Array(dtype, dim, rows) == [dtype |-> dtype, dim |-> dim, rows |-> rows]
NoArray == Array("float", 0, << >>)

\* gtab=None, and a GradientTable with its bvecs and b0s_mask.
NoGtab == [given |-> FALSE, bvecs |-> << >>, b0s_mask |-> << >>]
GradientTable(bvecs, mask) == [given |-> TRUE, bvecs |-> bvecs, b0s_mask |-> mask]

----------------------------------------------------------------------------
\* is_hemispherical, line by line

\* np.linalg.norm of one row.
Norm(v) == ISqrt(Dot(v, v))

\* IsClose with atol not passed on: np.allclose's own default atol=1e-08.
IsCloseDefaultAtol(n, a) == Abs(Den - n) * TolDen <= 1 + n

\* One element of np.allclose(1, norms, atol=atol): |1 - n| <= atol + rtol * |n|
\* for the norm n / Den, both sides multiplied by Den * TolDen.
IsClose(n, a) == Abs(Den - n) * TolDen <= a * Den + n

AllClose(rows, a) == \A i \in 1..Len(rows) : IsClose(Norm(rows[i]), a)

Distinct(p) == p[1] # p[2]

\* itertools.permutations(range(n), 2): the ordered pairs of distinct
\* positions, in lexicographic order.
Permutations2(n) ==
    Flatten([i \in 1..n |-> SelectSeq([j \in 1..n |-> << i, j >>], Distinct)])

\* v0, v1 = zip(*[...]) cannot unpack the two tuples when there is no pair.
UnpackFails(pairs) == Len(pairs) = 0

\* [p for p in itertools.permutations(vecs, 2)]: the ordered pairs of rows.
RowPairs(rows) ==
    LET pairs == Permutations2(Len(rows))
    IN  [k \in 1..Len(pairs) |-> << rows[pairs[k][1]], rows[pairs[k][2]] >>]

\* np.cross(v0, v1)
CrossProds(rows) ==
    LET rp == RowPairs(rows)
    IN  [k \in 1..Len(rp) |-> Cross(rp[k][1], rp[k][2])]

\* cross_prods /= ...: np.cross of int64 rows is an int64 array, and the
\* float64 quotient cannot be cast back into it in place (TypeError).
CastFails(dtype) == dtype = "int"

\* One row of cross_prods /= norm: 0/0 is NaN in every component.
NormalizeRow(c) == IF c = Zero3 THEN NaNVec ELSE UnitVec(Primitive(c))

Normalized(cp) == [k \in 1..Len(cp) |-> NormalizeRow(cp[k])]

\* Component i of np.cross(p[1], p[2]) is 0 in float64 for certain: each of
\* its two products has a factor 0.
ExactZero(p, i) ==
    LET j == (i % 3) + 1
        k == ((i + 1) % 3) + 1
    IN  (p[1][j] = 0 \/ p[2][k] = 0) /\ (p[1][k] = 0 \/ p[2][j] = 0)

\* The normalised cross product of the pair p is +-1 on one axis and 0 on
\* the others in float64 for certain (sqrt(x * x) is |x|).
ExactAxis(p) == Cardinality({ i \in 1..3 : ExactZero(p, i) }) = 2

\* The dot product of the normalised cross product c of the pair p with the
\* row v is 0 or 1 in the reals and its float64 value is not certain to be
\* that: the rounding decides on which side of the boundary it falls.
RoundingDecides(c, p, v) ==
    /\ c.kind = "unit"
    /\ LET d == Dot(c.u, v)
       IN  \/ d = 0 /\ \E i \in 1..3 : v[i] # 0 /\ ~ExactZero(p, i)
           \/ d > 0 /\ d * d = Dot(c.u, c.u) * Den * Den /\ ~ExactAxis(p)

\* The triples (row, row, row) of an input whose comparison the rounding
\* decides.
RoundingCases(rows) ==
    { << rows[i], rows[j], rows[m] >> : << i, j, m >> \in
        { t \in (1..Len(rows)) \X (1..Len(rows)) \X (1..Len(rows)) :
            /\ t[1] # t[2]
            /\ RoundingDecides(NormalizeRow(Cross(rows[t[1]], rows[t[2]])),
                               << rows[t[1]], rows[t[2]] >>, rows[t[3]]) } }

\* arccos(dot(c, v)) <= pi / 2 for the normalised cross product c of the
\* pair p and an input row v: the dot product is Dot(c.u, v) / (|c.u| * Den);
\* arccos is NaN outside [-1, 1] and a comparison with NaN is False.  r
\* holds the outcome where the rounding decides.
AngleTest(c, p, v, r) ==
    IF c.kind = "nan" THEN FALSE
    ELSE IF RoundingDecides(c, p, v) THEN r[<< p[1], p[2], v >>]
    ELSE LET d == Dot(c.u, v)
         IN  d >= 0 /\ d * d <= Dot(c.u, c.u) * Den * Den

DotProdTest(cp, rows, r) ==
    LET rp == RowPairs(rows)
    IN  [k \in 1..Len(cp) |->
            [m \in 1..Len(rows) |-> AngleTest(cp[k], rp[k], rows[m], r)]]

\* np.sum(dot_prod_test.astype(int), axis=1), one row.
PassCount(row) == Cardinality({m \in 1..Len(row) : row[m]})

\* len(vecs) in np.sum(...)
IsHemi(test, n) == \E k \in 1..Len(test) : PassCount(test[k]) = n

\* arr[mask]: the rows whose mask entry is True, in order.
RECURSIVE MaskSelect(_, _)
MaskSelect(s, mask) ==
    IF s = << >> THEN << >>
    ELSE (IF Head(mask) THEN << Head(s) >> ELSE << >>)
         \o MaskSelect(Tail(s), Tail(mask))

\* np.sum(dot_prod_test.astype(int), axis=1) == len(vecs)
VertexMask(test, n) == [k \in 1..Len(test) |-> PassCount(test[k]) = n]

\* cross_prods[np.sum(...) == len(vecs)]
Vertices(cp, test, n) == MaskSelect(cp, VertexMask(test, n))

\* The pairs of rows the vertices are the cross products of.
VertexPairs(rows, test) == MaskSelect(RowPairs(rows), VertexMask(test, Len(rows)))

\* The least common multiple of the norms of the directions vs.
NormLcm(vs) == LcmSeq[[k \in 1..Len(vs) |-> Norm(vs[k].u)]]

\* The unit vectors u / |u| of the directions us, each multiplied by l, a
\* common multiple of the norms.
ScaledUnits[l \in Nat, us \in Seq(Seq(Int))] ==
    [k \in 1..Len(us) |->
        LET f == l \div Norm(us[k])
        IN  << f * us[k][1], f * us[k][2], f * us[k][3] >>]

\* np.mean(vertices, axis=0) in the reals, up to a positive factor: the sum
\* of the unit vectors u / |u|, multiplied by the norm when the directions
\* all have the same, by the least common multiple of the norms otherwise.
MeanDirection(vs) ==
    LET us == [k \in 1..Len(vs) |-> vs[k].u]
    IN  IF \A k \in 1..Len(us) : Dot(us[k], us[k]) = Dot(us[1], us[1])
        THEN SumVec[us]
        ELSE SumVec[ScaledUnits[NormLcm(vs), us]]

\* The rows of the pairs p and q up to sign and order are the same, so
\* that their normalised cross products are the same float64 vector or
\* each the exact negation of the other.
SameLines(p, q) ==
    { { p[1], Neg(p[1]) }, { p[2], Neg(p[2]) } } = { { q[1], Neg(q[1]) }, { q[2], Neg(q[2]) } }

\* np.add.reduce over the rows vs (cross products of the pairs ps) whose sum
\* is zero in the reals is 0 in float64 for certain: the rows are +-1 on an
\* axis, or they are one float64 vector c and its negation and the running
\* sum stays within 0, +-c and +-2c.
SumIsExact(vs, ps) ==
    \/ \A k \in 1..Len(ps) : ExactAxis(ps[k])
    \/ /\ \A k \in 1..Len(ps) : SameLines(ps[k], ps[1])
       /\ \A k \in 1..Len(vs) :
             Abs(SumSeq[[l \in 1..k |-> IF vs[l].u = vs[1].u THEN 1 ELSE 0 - 1]]) <= 2

\* np.mean(vertices, axis=0): NaN when a row is NaN; the mean of the reals
\* when that is not zero; when it is zero, zero or, unless the float64 sum
\* is exact, a non-zero vector of rounding errors.
MeanOutcomes(vs, ps) ==
    IF \E k \in 1..Len(vs) : vs[k].kind = "nan" THEN { NaNVec }
    ELSE IF MeanDirection(vs) # Zero3 THEN { MeanVec(MeanDirection(vs)) }
    ELSE IF SumIsExact(vs, ps) THEN { MeanVec(Zero3) }
    ELSE { MeanVec(Zero3), NoiseVec }

\* NormalizePole guarded against the division by zero: a zero mean is left
\* as it is.
NormalizePoleGuarded(m) ==
    IF m.kind = "nan" THEN NaNVec
    ELSE IF m.kind = "noise" THEN RoundoffVec
    ELSE IF m.u = Zero3 THEN ZeroVec ELSE UnitVec(Primitive(m.u))

\* pole /= np.linalg.norm(pole): 0/0 is NaN in every component.
NormalizePole(m) ==
    IF m.kind = "nan" THEN NaNVec
    ELSE IF m.kind = "noise" THEN RoundoffVec
    ELSE IF m.u = Zero3 THEN NaNVec ELSE UnitVec(Primitive(m.u))

\* is_hemispherical(vecs, atol) as a whole, with the comparisons the
\* rounding decides given by r: what it can raise ("" when it returns) and
\* return.
IsHemispherical(arr, a, r) ==
    LET rows == arr.rows
        n    == Len(rows)
        cp   == Normalized(CrossProds(rows))
        test == DotProdTest(cp, rows, r)
        Raise(e) == [raised |-> e, is_hemi |-> FALSE, pole |-> Unset]
    IN  IF arr.dim # 3 THEN { Raise("dim") }
        ELSE IF ~AllClose(rows, a) THEN { Raise("unit") }
        ELSE IF UnpackFails(Permutations2(n)) THEN { Raise("unpack") }
        ELSE IF CastFails(arr.dtype) THEN { Raise("cast") }
        ELSE IF IsHemi(test, n)
             THEN { [raised |-> "", is_hemi |-> TRUE, pole |-> NormalizePole(m)] :
                        m \in MeanOutcomes(Vertices(cp, test, n), VertexPairs(rows, test)) }
             ELSE { [raised |-> "", is_hemi |-> FALSE, pole |-> ZeroVec] }

----------------------------------------------------------------------------
\* is_bval_bvec_hemispherical

None == "None"

\* MissingPath with "and" for "or".
MissingPathBoth(bval, bvec) == bval = None /\ bvec = None

\* bval_file is None or bvec_file is None
MissingPath(bval, bvec) == bval = None \/ bvec = None

\* bval_file is not None or bvec_file is not None
AnyPath(bval, bvec) == bval # None \/ bvec # None

\* Invert without the "~": the mask itself.
InvertDropped(mask) == mask

\* ~gtab.b0s_mask
Invert(mask) == [i \in 1..Len(mask) |-> ~mask[i]]

\* The arguments of the call is_hemispherical(gtab.bvecs[~gtab.b0s_mask], atol=atol);
\* the bvecs of a GradientTable are float64 (gradients / bvals).
CoreArgs(g, a) ==
    [vecs |-> Array("float", 3, MaskSelect(g.bvecs, Invert(g.b0s_mask))), atol |-> a]

\* What the entry point returns from what the core returned.
Returned(h, p) == [is_hemi |-> h, pole |-> p]
NoReturn == Returned(FALSE, Unset)

----------------------------------------------------------------------------
\* Inputs

SeqsOf(S) == UNION { [1..n -> S] : n \in 0..MaxN }

\* Rows of a float64 (N, 3) array: axis directions, a direction of the
\* xy-plane, the axes at norm 1.001, and a vector of norm 1.002.
Vec3 == { << 1000, 0, 0 >>, << 0 - 1000, 0, 0 >>, << 0, 1000, 0 >>,
          << 0, 0, 1000 >>, << 600, 800, 0 >>,
          << 1001, 0, 0 >>, << 0, 1001, 0 >>, << 0, 0, 1001 >>,
          << 1002, 0, 0 >> }

\* Rows of an int64 (N, 3) array.
IntVec3 == { << 1000, 0, 0 >>, << 0 - 1000, 0, 0 >>, << 0, 1000, 0 >> }

\* Rows of an (N, 2) array.
Vec2 == { << 1000, 0 >>, << 1500, 0 >> }

\* One row followed by copies of another.
Copies == { << a >> \o [i \in 1..n |-> b] : a \in Vec3, b \in Vec3, n \in 1..MaxCopies }

\* Two unit vectors, not parallel, whose cross product is orthogonal to
\* both with products that cancel: (-0.8, -0.6, 0) and (0.48, 0.36, -0.8).
Oblique == { << << 0 - 800, 0 - 600, 0 >>, << 480, 360, 0 - 800 >> >>,
             << << 480, 360, 0 - 800 >>, << 0 - 800, 0 - 600, 0 >> >> }

CoreInputs ==
    { Array("float", 3, r) : r \in SeqsOf(Vec3) \cup Copies \cup Oblique }
    \cup { Array("int", 3, r) : r \in SeqsOf(IntVec3) }
    \cup { Array("float", 2, r) : r \in SeqsOf(Vec2) }

\* atol: the default, and 0.00199.
Atols == { DefaultAtol, 199 }

\* Rows of a gradient table's bvecs; the zero vector is what a b0 volume has.
GVec == { << 1000, 0, 0 >>, << 0, 1000, 0 >>, Zero3 }

GTabs == UNION { { GradientTable(b, m) : b \in [1..n -> GVec], m \in [1..n -> BOOLEAN] } :
                 n \in 0..MaxN }

Paths == { None, "dwi" }

\* No comparison made yet.
NoRounding == [t \in {} |-> TRUE]

----------------------------------------------------------------------------
\* The calls

InitCore ==
    /\ entry = "core"
    /\ pc = "c_dim"
    /\ vecs \in CoreInputs
    /\ core_atol \in Atols
    /\ atol = core_atol
    /\ called = TRUE
    /\ gtab = NoGtab
    /\ bval_file = None
    /\ bvec_file = None

InitWrapper ==
    /\ entry = "wrapper"
    /\ pc = "w_args"
    /\ gtab \in {NoGtab} \cup GTabs
    /\ bval_file \in Paths
    /\ bvec_file \in Paths
    /\ atol \in Atols
    /\ vecs = NoArray
    /\ core_atol = 0
    /\ called = FALSE

Init ==
    /\ InitCore \/ InitWrapper
    /\ loaded = FALSE
    /\ cross_prods = << >>
    /\ rounding = NoRounding
    /\ dot_prod_test = << >>
    /\ is_hemi = FALSE
    /\ vertices = << >>
    /\ pole = Unset
    /\ err = ""
    /\ ret = NoReturn

Raise(e) ==
    /\ pc' = "raised"
    /\ err' = e

\* Lines 103-114: the argument check, and gradient_table(bval_file, bvec_file).
CheckArgs ==
    /\ pc = "w_args"
    /\ IF ~gtab.given
       THEN IF MissingPath(bval_file, bvec_file)
            THEN Raise("args") /\ UNCHANGED << gtab, loaded >>
            ELSE /\ gtab' \in GTabs
                 /\ loaded' = TRUE
                 /\ pc' = "w_call"
                 /\ err' = err
       ELSE IF AnyPath(bval_file, bvec_file)
            THEN Raise("args") /\ UNCHANGED << gtab, loaded >>
            ELSE pc' = "w_call" /\ UNCHANGED << gtab, loaded, err >>
    /\ UNCHANGED << entry, bval_file, bvec_file, atol, called, vecs, core_atol,
                    cross_prods, rounding, dot_prod_test, is_hemi, vertices, pole, ret >>

\* Line 116: the call of is_hemispherical.
Delegate ==
    /\ pc = "w_call"
    /\ vecs' = CoreArgs(gtab, atol).vecs
    /\ core_atol' = CoreArgs(gtab, atol).atol
    /\ called' = TRUE
    /\ pc' = "c_dim"
    /\ UNCHANGED << entry, gtab, bval_file, bvec_file, atol, loaded,
                    cross_prods, rounding, dot_prod_test, is_hemi, vertices, pole, err, ret >>

\* Line 116: the return of what is_hemispherical returned.
Return ==
    /\ pc = "w_return"
    /\ ret' = Returned(is_hemi, pole)
    /\ pc' = "done"
    /\ UNCHANGED << entry, gtab, bval_file, bvec_file, atol, loaded, called, vecs,
                    core_atol, cross_prods, rounding, dot_prod_test, is_hemi, vertices, pole, err >>

coreLocals == << cross_prods, rounding, dot_prod_test, is_hemi, vertices, pole >>
callerVars == << entry, gtab, bval_file, bvec_file, atol, loaded, called, vecs,
                 core_atol, ret >>

\* Lines 42-43
CheckDim ==
    /\ pc = "c_dim"
    /\ IF vecs.dim # 3 THEN Raise("dim") ELSE pc' = "c_norm" /\ err' = err
    /\ UNCHANGED << callerVars, coreLocals >>

\* Lines 44-45
CheckNorm ==
    /\ pc = "c_norm"
    /\ IF ~AllClose(vecs.rows, core_atol) THEN Raise("unit")
       ELSE pc' = "c_cross" /\ err' = err
    /\ UNCHANGED << callerVars, coreLocals >>

\* Lines 48-49
CrossStep ==
    /\ pc = "c_cross"
    /\ IF UnpackFails(Permutations2(Len(vecs.rows)))
       THEN Raise("unpack") /\ UNCHANGED cross_prods
       ELSE /\ cross_prods' = CrossProds(vecs.rows)
            /\ pc' = "c_normalize"
            /\ err' = err
    /\ UNCHANGED << callerVars, rounding, dot_prod_test, is_hemi, vertices, pole >>

\* Line 52; cross_prods holds the normalised rows from here on.
NormalizeStep ==
    /\ pc = "c_normalize"
    /\ IF CastFails(vecs.dtype)
       THEN Raise("cast") /\ UNCHANGED cross_prods
       ELSE /\ cross_prods' = Normalized(cross_prods)
            /\ pc' = "c_test"
            /\ err' = err
    /\ UNCHANGED << callerVars, rounding, dot_prod_test, is_hemi, vertices, pole >>

\* Lines 57-60, with the outcomes of the comparisons the rounding decides.
TestStep ==
    /\ pc = "c_test"
    /\ rounding' \in [RoundingCases(vecs.rows) -> BOOLEAN]
    /\ dot_prod_test' = DotProdTest(cross_prods, vecs.rows, rounding')
    /\ pc' = "c_hemi"
    /\ UNCHANGED << callerVars, cross_prods, is_hemi, vertices, pole, err >>

\* The return of is_hemispherical, line 72, to its caller.
Returning == IF entry = "wrapper" THEN "w_return" ELSE "done"

\* Lines 64 and 66
HemiStep ==
    /\ pc = "c_hemi"
    /\ is_hemi' = IsHemi(dot_prod_test, Len(vecs.rows))
    /\ pc' = IF is_hemi' THEN "c_vertices" ELSE "c_else"
    /\ UNCHANGED << callerVars, cross_prods, rounding, dot_prod_test, vertices, pole, err >>

\* Line 67
VerticesStep ==
    /\ pc = "c_vertices"
    /\ vertices' = Vertices(cross_prods, dot_prod_test, Len(vecs.rows))
    /\ pc' = "c_mean"
    /\ UNCHANGED << callerVars, cross_prods, rounding, dot_prod_test, is_hemi, pole, err >>

\* Line 68
MeanStep ==
    /\ pc = "c_mean"
    /\ pole' \in MeanOutcomes(vertices, VertexPairs(vecs.rows, dot_prod_test))
    /\ pc' = "c_pole"
    /\ UNCHANGED << callerVars, cross_prods, rounding, dot_prod_test, is_hemi, vertices, err >>

\* Lines 69 and 72
PoleStep ==
    /\ pc = "c_pole"
    /\ pole' = NormalizePole(pole)
    /\ pc' = Returning
    /\ UNCHANGED << callerVars, cross_prods, rounding, dot_prod_test, is_hemi, vertices, err >>

\* Lines 71 and 72
ElseStep ==
    /\ pc = "c_else"
    /\ pole' = ZeroVec
    /\ pc' = Returning
    /\ UNCHANGED << callerVars, cross_prods, rounding, dot_prod_test, is_hemi, vertices, err >>

Next ==
    \/ CheckArgs
    \/ Delegate
    \/ Return
    \/ CheckDim
    \/ CheckNorm
    \/ CrossStep
    \/ NormalizeStep
    \/ TestStep
    \/ HemiStep
    \/ VerticesStep
    \/ MeanStep
    \/ PoleStep
    \/ ElseStep

Spec == Init /\ [][Next]_vars

----------------------------------------------------------------------------
\* Properties

\* is_hemispherical has returned (to its caller, or to the entry point).
CoreReturned == pc \in {"w_return", "done"}

\* is_hemispherical is past lines 42-45.
ValidationOver == called /\ pc \notin {"c_dim", "c_norm"}

ValidationError == pc = "raised" /\ err \in {"dim", "unit"}

\* The call has returned or raised.
Finished == pc \in {"done", "raised"}

Rows == vecs.rows
N == Len(vecs.rows)

\* The angle between the directions p and v is at most pi/2.
WithinRightAngle(p, v) == Dot(p, v) >= 0

\* Every norm the run takes is an integer, so that ISqrt is the square root.
NormsExact ==
    /\ vecs.dim = 3 => \A i \in 1..N : IsSquare(Dot(Rows[i], Rows[i]))
    /\ pc \notin {"c_normalize", "raised"} =>
          \A k \in 1..Len(cross_prods) : IsSquare(Dot(cross_prods[k].u, cross_prods[k].u))

TypeOK ==
    /\ entry \in {"core", "wrapper"}
    /\ pc \in {"w_args", "w_call", "w_return", "c_dim", "c_norm", "c_cross",
               "c_normalize", "c_test", "c_hemi", "c_vertices", "c_mean", "c_pole",
               "c_else", "done", "raised"}
    /\ err \in {"", "args", "dim", "unit", "unpack", "cast"}
    /\ (pc = "raised") = (err # "")
    /\ is_hemi \in BOOLEAN
    /\ pole.kind \in {"unset", "zero", "nan", "unit", "mean", "noise", "roundoff"}
    /\ vecs.dtype \in {"float", "int"}
    /\ \A t \in DOMAIN rounding : rounding[t] \in BOOLEAN
    /\ NormsExact

\* C1: when is_hemispherical returns, is_hemi is true if and only if at least
\* one normalised cross product of an ordered pair of input vectors is within
\* an angle of pi/2 (inclusive) of every input vector.
C1_IsHemiIffVertexCandidate ==
    CoreReturned =>
        (is_hemi <=> \E k \in 1..Len(cross_prods) :
                        /\ cross_prods[k].kind = "unit"
                        /\ \A m \in 1..N : WithinRightAngle(cross_prods[k].u, Rows[m]))

\* C2: when is_hemispherical returns is_hemi = true, the pole is a unit vector
\* and every input vector is within 90 degrees (inclusive) of it.
C2_PoleIsHemispherePole ==
    (CoreReturned /\ is_hemi) =>
        /\ pole.kind = "unit"
        /\ \A m \in 1..N : WithinRightAngle(pole.u, Rows[m])

\* Directions tried as the pole of a hemisphere.
PoleCandidates == { p \in [1..3 -> -1..1] : p # Zero3 }

InSomeHemisphere(rows) ==
    \E p \in PoleCandidates : \A m \in 1..Len(rows) : WithinRightAngle(p, rows[m])

\* C3: when is_hemispherical returns is_hemi = false, no direction has every
\* input vector within 90 degrees (inclusive) of it.
C3_FalseMeansNoHemisphere ==
    (CoreReturned /\ ~is_hemi) => ~InSomeHemisphere(Rows)

\* C4: when is_hemispherical returns, the pole is the zero vector if and only
\* if is_hemi is false.
C4_ZeroPoleIffNotHemi ==
    CoreReturned => ((~is_hemi) <=> (pole = ZeroVec))

C4_Witness == pc = "done" /\ ~is_hemi /\ pole = ZeroVec /\ N = 3

\* |norm - 1| > atol for the row v.
DeviatesBeyondAtol(v, a) == Abs(Den - Norm(v)) * TolDen > a * Den

\* |norm - 1| > atol + 1e-05 * norm for the row v.
DeviatesBeyondBoth(v, a) == Abs(Den - Norm(v)) * TolDen > a * Den + Norm(v)

\* The dimension check comes first, and rows within atol of norm 1 pass.
C5_OrderAndAccept ==
    /\ vecs.dim # 3 => err = "dim"
    /\ (vecs.dim = 3 /\ \A i \in 1..N : ~DeviatesBeyondAtol(Rows[i], core_atol))
          => ~ValidationError

\* C5 as claimed: once past validation, an input that is not 3-dimensional
\* or has a row whose norm deviates from 1 by more than atol has raised a
\* validation error with no cross product computed; the dimension check
\* comes first; rows within atol of norm 1 raise neither error.
C5_RaisesBeyondAtol ==
    ValidationOver =>
        /\ (vecs.dim # 3 \/ \E i \in 1..N : DeviatesBeyondAtol(Rows[i], core_atol))
              => (ValidationError /\ cross_prods = << >>)
        /\ C5_OrderAndAccept

\* C5 as amended: the same with "deviates from 1 by more than
\* atol + 1e-05 * norm" (np.allclose adds its default relative tolerance).
C5_RaisesBeyondBoth ==
    ValidationOver =>
        /\ (vecs.dim # 3 \/ \E i \in 1..N : DeviatesBeyondBoth(Rows[i], core_atol))
              => (ValidationError /\ cross_prods = << >>)
        /\ C5_OrderAndAccept

C5_Witness ==
    /\ pc = "raised"
    /\ err = "unit"
    /\ N = 3
    /\ \E i \in 1..N : ~DeviatesBeyondAtol(Rows[i], core_atol)

\* What is_hemispherical returns is a boolean and a 3-vector.
ReturnsResult ==
    CoreReturned => (is_hemi \in BOOLEAN /\ pole.kind \in {"zero", "nan", "unit", "roundoff"})

\* C6: a call of is_hemispherical whose input passes the dimension and
\* unit-norm checks, of any size N, returns a boolean and a 3-vector: it
\* raises nothing but the two validation errors.
C6_TotalForEveryN ==
    /\ (called /\ pc = "raised") => err \in {"dim", "unit"}
    /\ ReturnsResult

\* C7: a call of is_hemispherical on two rows v and -v that pass validation
\* returns is_hemi = false and the zero vector.
C7_AntipodalPair ==
    (called /\ Finished /\ ~ValidationError /\ vecs.dim = 3 /\ N = 2 /\ Rows[2] = Neg(Rows[1]))
        => (pc = "done" /\ ~is_hemi /\ pole = ZeroVec)

Perms(n) == { f \in [1..n -> 1..n] : \A i, j \in 1..n : f[i] = f[j] => i = j }

Reordered(rows, f) == [i \in 1..Len(rows) |-> rows[f[i]]]

\* The poles p and q can be the same vector: they are the zero vector, or
\* unit vectors of the same direction or of a direction the rounding sets.
\* NaN is no direction and equal to nothing, itself included.
SamePole(p, q) ==
    /\ p.kind # "nan"
    /\ q.kind # "nan"
    /\ \/ p = q
       \/ "roundoff" \in {p.kind, q.kind} /\ {p.kind, q.kind} \subseteq {"unit", "roundoff"}

\* The vertices of the rows, as a set.
VertexSet(rows, r) ==
    LET cp == Normalized(CrossProds(rows))
        vs == Vertices(cp, DotProdTest(cp, rows, r), Len(rows))
    IN  { vs[k] : k \in 1..Len(vs) }

\* C8: when is_hemispherical returns, a call on the same rows in any other
\* order returns as well, with the same set of vertices, the same is_hemi
\* and the same pole.  Each comparison has the same operand rows in every
\* order, hence the same outcome (rounding); where the rounding leaves the
\* pole open, the statement asks only that the two calls can return the
\* same.
C8_PermutationInvariant ==
    CoreReturned =>
        \A f \in Perms(N) :
            LET rows == Reordered(Rows, f)
            IN  rows # Rows =>
                  /\ VertexSet(rows, rounding) = VertexSet(Rows, rounding)
                  /\ \E r \in IsHemispherical(Array(vecs.dtype, 3, rows), core_atol, rounding),
                        q \in IsHemispherical(vecs, core_atol, rounding) :
                        /\ r.raised = ""
                        /\ q.raised = ""
                        /\ r.is_hemi = q.is_hemi
                        /\ SamePole(r.pole, q.pole)

\* The caller passed a gradient table (one that gradient_table loaded was
\* not passed).
TablePassed == gtab.given /\ ~loaded

\* The two input forms: a table alone, or the two paths alone.
OneForm ==
    \/ TablePassed /\ bval_file = None /\ bvec_file = None
    \/ ~TablePassed /\ bval_file # None /\ bvec_file # None

\* C9: is_bval_bvec_hemispherical raises the argument error, having loaded
\* nothing and not having called is_hemispherical, unless exactly one of the
\* two input forms is given; then it calls is_hemispherical.
C9_ArgumentCheck ==
    (entry = "wrapper" /\ pc # "w_args") =>
        /\ ~OneForm => (pc = "raised" /\ err = "args" /\ ~loaded /\ ~called)
        /\ OneForm => (err # "args" /\ (called \/ pc = "w_call"))
        /\ loaded => ~TablePassed

C9_Witness ==
    /\ pc = "raised"
    /\ err = "args"
    /\ gtab.given
    /\ Len(gtab.bvecs) = 2
    /\ bval_file # None

\* The positions of the gradient table that are not b0.
NotB0 == { i \in 1..Len(gtab.bvecs) : ~gtab.b0s_mask[i] }

\* C10: once is_bval_bvec_hemispherical has called is_hemispherical, the rows
\* passed are the gradient table's bvecs that are not b0, in their order, and
\* the tolerance passed is the caller's; what it returns is what
\* is_hemispherical returns for these arguments.
C10_Delegation ==
    (entry = "wrapper" /\ called) =>
        /\ vecs.dim = 3
        /\ N = Cardinality(NotB0)
        /\ \A i \in NotB0 : Rows[Cardinality({ j \in NotB0 : j <= i })] = gtab.bvecs[i]
        /\ core_atol = atol
        /\ pc = "done" =>
             IsHemispherical(vecs, atol, rounding)
                 = { [raised |-> "", is_hemi |-> ret.is_hemi, pole |-> ret.pole] }

C10_Witness ==
    /\ pc = "done"
    /\ entry = "wrapper"
    /\ N = 2
    /\ \E i \in 1..Len(gtab.bvecs) : gtab.b0s_mask[i] /\ gtab.bvecs[i] = Zero3

====
